---- MODULE Spec2Model ----
(***************************************************************************)
(* A model of echo's DefaultBinder (bind.go): Bind, bindData and the       *)
(* converters they call.                                                   *)
(*                                                                         *)
(* Strings are sequences of one-character strings, so that strings.ToLower *)
(* and strings.HasPrefix and the strconv parsers are computed and not      *)
(* assumed.  A Go type is a record [kind, hook, elem, fields, isTime]; a   *)
(* Go value is an integer, a boolean, a string, a sequence (slice), a      *)
(* pointer record [id, val] (id = 0 is nil, any other id names the         *)
(* allocation the pointer refers to) or a sequence of field values         *)
(* (struct).                                                               *)
(***************************************************************************)
EXTENDS Integers, Sequences, FiniteSets, TLC

(***************************************************************************)
(* Bounds of the checked inputs.                                           *)
(***************************************************************************)
\* the longest list of values one key of a data map carries
MaxVals == 3
\* the largest number of keys in a data map
MaxKeys == 3

(***************************************************************************)
(* Strings.                                                                *)
(***************************************************************************)
UpperCase == <<"A","B","C","D","E","F","G","H","I","J","K","L","M",
               "N","O","P","Q","R","S","T","U","V","W","X","Y","Z">>
LowerCase == <<"a","b","c","d","e","f","g","h","i","j","k","l","m",
               "n","o","p","q","r","s","t","u","v","w","x","y","z">>
Digits == <<"0","1","2","3","4","5","6","7","8","9">>

Range(s) == { s[i] : i \in DOMAIN s }

IndexOf(seq, c) == CHOOSE i \in DOMAIN seq : seq[i] = c

\* unicode.ToLower on one character
ToLowerChar(c) ==
  IF c \in Range(UpperCase) THEN LowerCase[IndexOf(UpperCase, c)] ELSE c

\* strings.ToLower
ToLower(s) == [ i \in DOMAIN s |-> ToLowerChar(s[i]) ]

\* strings.HasPrefix
HasPrefix(s, prefix) ==
  Len(s) >= Len(prefix) /\ SubSeq(s, 1, Len(prefix)) = prefix

\* whether a field name is exported (reflect: only those fields can be set)
IsExported(name) == Len(name) > 0 /\ name[1] \in Range(UpperCase)

IsDigits(s) == \A i \in DOMAIN s : s[i] \in Range(Digits)

RECURSIVE DigitsValue(_)
\* the number a string of decimal digits denotes
DigitsValue(s) ==
  IF Len(s) = 0 THEN 0
  ELSE 10 * DigitsValue(SubSeq(s, 1, Len(s) - 1)) + (IndexOf(Digits, s[Len(s)]) - 1)

(***************************************************************************)
(* strconv.  A result is [err, v]; err = "nil" is success.                 *)
(***************************************************************************)
ErrSyntax == "strconv: invalid syntax"
ErrRange  == "strconv: value out of range"

RECURSIVE Pow2(_)
Pow2(n) == IF n = 0 THEN 1 ELSE 2 * Pow2(n - 1)

\* The values of the model have at most 9 digits, so every one is in the
\* range of a 32 or 64 bit integer; bitSize 0 is the 64-bit int.
MinInt(bitSize) == IF bitSize \in {8, 16} THEN -Pow2(bitSize - 1) ELSE -999999999
MaxInt(bitSize) == IF bitSize \in {8, 16} THEN Pow2(bitSize - 1) - 1 ELSE 999999999
MaxUint(bitSize) == IF bitSize \in {8, 16} THEN Pow2(bitSize) - 1 ELSE 999999999

\* strconv.ParseInt(s, 10, bitSize)
ParseInt(s, bitSize) ==
  LET signed == Len(s) > 0 /\ s[1] \in {"+", "-"}
      body   == IF signed THEN Tail(s) ELSE s
      inRange(n) ==
        IF n < MinInt(bitSize) THEN [err |-> ErrRange, v |-> MinInt(bitSize)]
        ELSE IF n > MaxInt(bitSize) THEN [err |-> ErrRange, v |-> MaxInt(bitSize)]
        ELSE [err |-> "nil", v |-> n]
      sign   == IF signed /\ s[1] = "-" THEN -1 ELSE 1
  IN  IF Len(body) = 0 \/ ~IsDigits(body) THEN [err |-> ErrSyntax, v |-> 0]
      ELSE inRange(sign * DigitsValue(body))

\* strconv.ParseUint(s, 10, bitSize): no sign is accepted
ParseUint(s, bitSize) ==
  LET inRange(n) ==
        IF n > MaxUint(bitSize) THEN [err |-> ErrRange, v |-> MaxUint(bitSize)]
        ELSE [err |-> "nil", v |-> n]
  IN  IF Len(s) = 0 \/ ~IsDigits(s) THEN [err |-> ErrSyntax, v |-> 0]
      ELSE inRange(DigitsValue(s))

TrueTokens  == { <<"1">>, <<"t">>, <<"T">>, <<"T","R","U","E">>,
                 <<"t","r","u","e">>, <<"T","r","u","e">> }
FalseTokens == { <<"0">>, <<"f">>, <<"F">>, <<"F","A","L","S","E">>,
                 <<"f","a","l","s","e">>, <<"F","a","l","s","e">> }

\* strconv.ParseBool
ParseBool(s) ==
  IF s \in TrueTokens THEN [err |-> "nil", v |-> TRUE]
  ELSE IF s \in FalseTokens THEN [err |-> "nil", v |-> FALSE]
  ELSE [err |-> ErrSyntax, v |-> FALSE]

RECURSIVE NormalFloat(_, _)
\* mant * 10^-exp without trailing zeros of the fraction
NormalFloat(mant, exp) ==
  IF exp > 0 /\ mant % 10 = 0 THEN NormalFloat(mant \div 10, exp - 1)
  ELSE [mant |-> mant, exp |-> exp]

\* strconv.ParseFloat on the decimal syntax [sign] digits [. digits]; the
\* value is [mant, exp] = mant * 10^-exp.  (Exponents, hexadecimal floats,
\* infinities and NaN are outside the tokens of the model.)
ParseFloat(s, bitSize) ==
  LET signed == Len(s) > 0 /\ s[1] \in {"+", "-"}
      body   == IF signed THEN Tail(s) ELSE s
      sign   == IF signed /\ s[1] = "-" THEN -1 ELSE 1
      parts(dots, dot) ==
        LET ip == SubSeq(body, 1, dot - 1)
            fp == SubSeq(body, dot + 1, Len(body))
        IN  IF Cardinality(dots) > 1 \/ ~IsDigits(ip) \/ ~IsDigits(fp) \/ Len(ip) + Len(fp) = 0
            THEN [err |-> ErrSyntax, v |-> [mant |-> 0, exp |-> 0]]
            ELSE [err |-> "nil", v |-> NormalFloat(sign * DigitsValue(ip \o fp), Len(fp))]
      split(dots) == parts(dots, IF dots = {} THEN Len(body) + 1 ELSE CHOOSE i \in dots : TRUE)
  IN  split({ i \in DOMAIN body : body[i] = "." })


(***************************************************************************)
(* Types (reflect.Type) and struct fields (reflect.StructField).           *)
(***************************************************************************)
NoTags == [ t \in {"query", "form", "time_format", "time_utc", "time_location"} |-> <<>> ]

\* a type of a scalar kind; hook: *T implements BindUnmarshaler
Scalar(kind, hook) ==
  [kind |-> kind, hook |-> hook, isTime |-> FALSE, elem |-> <<>>, fields |-> <<>>]
PtrTo(t)   == [kind |-> "ptr", hook |-> FALSE, isTime |-> FALSE, elem |-> <<t>>, fields |-> <<>>]
SliceOf(t, hook) ==
  [kind |-> "slice", hook |-> hook, isTime |-> FALSE, elem |-> <<t>>, fields |-> <<>>]
StructOf(fields, hook) ==
  [kind |-> "struct", hook |-> hook, isTime |-> FALSE, elem |-> <<>>, fields |-> fields]
Field(name, type, tags) == [name |-> name, type |-> type, tag |-> tags]

\* reflect.StructTag.Get
TagGet(typeField, key) == typeField.tag[key]

\* time.Time: a struct whose fields (wall, ext, loc) are not exported.  ext
\* holds the years since year 1 and loc the name of the location, empty
\* for UTC, so that the zero Time is the zero value of the struct.
TimeType ==
  [kind |-> "struct", hook |-> FALSE, isTime |-> TRUE, elem |-> <<>>,
   fields |-> << Field(<<"w","a","l","l">>, Scalar("uint64", FALSE), NoTags),
                 Field(<<"e","x","t">>, Scalar("int64", FALSE), NoTags),
                 Field(<<"l","o","c">>, Scalar("string", FALSE), NoTags) >>]

Elem(typ) == typ.elem[1]

NilPtr == [id |-> 0, val |-> <<>>]

RECURSIVE Zero(_)
\* reflect.Zero: the zero value of a type
Zero(typ) ==
  CASE typ.kind = "ptr"     -> NilPtr
    [] typ.kind = "slice"   -> <<>>
    [] typ.kind = "map"     -> <<>>
    [] typ.kind = "string"  -> <<>>
    [] typ.kind = "bool"    -> FALSE
    [] typ.kind \in {"float32", "float64"} -> [mant |-> 0, exp |-> 0]
    [] typ.kind = "struct"  -> [ i \in DOMAIN typ.fields |-> Zero(typ.fields[i].type) ]
    [] OTHER                -> 0

(***************************************************************************)
(* The converters.  A result is [err, v] or, where pointers may be         *)
(* allocated, [err, v, a]: v is the field's value afterwards and a the id  *)
(* of the next allocation.                                                 *)
(***************************************************************************)
\* BindUnmarshaler.UnmarshalParam of the types that declare it: the receiver
\* parses the parameter as a decimal number and stores it in itself (an
\* integer type), in its first field (a struct type) or as its only element
\* (a slice type); a parameter it cannot parse leaves the receiver as it was.
UnmarshalParam(typ, recv, param) ==
  LET store(r) ==
        IF r.err # "nil" THEN [err |-> r.err, v |-> recv]
        ELSE [err |-> "nil",
              v |-> CASE typ.kind = "struct" -> [recv EXCEPT ![1] = r.v]
                      [] typ.kind = "slice"  -> <<r.v>>
                      [] OTHER               -> r.v]
  IN  store(ParseInt(param, 64))

\* bindUnmarshaler: whether a new pointer to the field's type is a BindUnmarshaler
bindUnmarshaler(typ) == typ.hook

unmarshalFieldNonPtr(value, typ, field, a) ==
  LET set(r) == [ok |-> TRUE, err |-> r.err, v |-> r.v, a |-> a]
  IN  IF bindUnmarshaler(typ)
      THEN set(UnmarshalParam(typ, Zero(typ), value))
      ELSE [ok |-> FALSE, err |-> "nil", v |-> field, a |-> a]

\* unmarshalFieldPtr without the test of line 294: a new pointee every time
unmarshalFieldPtrAlwaysNew(value, typ, field, a) ==
  LET through(p) ==
        LET back(r) == [ok |-> r.ok, err |-> r.err, v |-> [id |-> p.id, val |-> r.v], a |-> r.a]
        IN  back(unmarshalFieldNonPtr(value, Elem(typ), p.val, a + 1))
  IN  through([id |-> a, val |-> Zero(Elem(typ))])

unmarshalFieldPtr(value, typ, field, a) ==
  LET isNil == field.id = 0
      \* p: the pointer after line 296
      through(p) ==
        LET back(r) == [ok |-> r.ok, err |-> r.err, v |-> [id |-> p.id, val |-> r.v], a |-> r.a]
        IN  back(unmarshalFieldNonPtr(value, Elem(typ), p.val, IF isNil THEN a + 1 ELSE a))
  IN  through(IF isNil THEN [id |-> a, val |-> Zero(Elem(typ))] ELSE field)

unmarshalField(valueKind, val, typ, field, a) ==
  IF valueKind = "ptr" THEN unmarshalFieldPtr(val, typ, field, a)
  ELSE unmarshalFieldNonPtr(val, typ, field, a)

\* the field set whatever the parser answered
SetAlways(r, field) == [err |-> r.err, v |-> r.v]

\* the field after a parser's answer r: set only if the parser succeeded
SetIfNil(r, field) == [err |-> r.err, v |-> IF r.err = "nil" THEN r.v ELSE field]

setIntField(value, bitSize, field) ==
  SetIfNil(ParseInt(IF value = <<>> THEN <<"0">> ELSE value, bitSize), field)

setUintField(value, bitSize, field) ==
  SetIfNil(ParseUint(IF value = <<>> THEN <<"0">> ELSE value, bitSize), field)

setBoolField(value, field) ==
  SetIfNil(ParseBool(IF value = <<>> THEN <<"f","a","l","s","e">> ELSE value), field)

setFloatField(value, bitSize, field) ==
  SetIfNil(ParseFloat(IF value = <<>> THEN <<"0",".","0">> ELSE value, bitSize), field)

ErrUnknownType == "unknown type"

\* the bitSize setWithProperType passes for a kind
BitSize(valueKind) ==
  CASE valueKind \in {"int8", "uint8"}   -> 8
    [] valueKind \in {"int16", "uint16"} -> 16
    [] valueKind \in {"int32", "uint32", "float32"} -> 32
    [] valueKind \in {"int64", "uint64", "float64"} -> 64
    [] OTHER -> 0

RECURSIVE setWithProperType(_, _, _, _, _)
setWithProperType(valueKind, val, typ, structField, a) ==
  LET \* u: what unmarshalField answered (line 200)
      switch(u) ==
        LET s(r) == [err |-> r.err, v |-> r.v, a |-> u.a]
            \* p: the pointer after line 209
            deref(p, valid) ==
              LET back(r) == [err |-> r.err, v |-> [id |-> p.id, val |-> r.v], a |-> r.a]
              IN  back(setWithProperType(Elem(typ).kind, val, Elem(typ), p.val,
                                         IF valid THEN u.a ELSE u.a + 1))
        IN  IF u.ok THEN [err |-> u.err, v |-> u.v, a |-> u.a]
            ELSE CASE valueKind = "ptr" ->
                        deref(IF u.v.id # 0 THEN u.v ELSE [id |-> u.a, val |-> Zero(Elem(typ))],
                              u.v.id # 0)
                   [] valueKind \in {"int", "int8", "int16", "int32", "int64"} ->
                        s(setIntField(val, BitSize(valueKind), u.v))
                   [] valueKind \in {"uint", "uint8", "uint16", "uint32", "uint64"} ->
                        s(setUintField(val, BitSize(valueKind), u.v))
                   [] valueKind = "bool" -> s(setBoolField(val, u.v))
                   [] valueKind \in {"float32", "float64"} ->
                        s(setFloatField(val, BitSize(valueKind), u.v))
                   [] valueKind = "string" -> [err |-> "nil", v |-> val, a |-> u.a]
                   [] OTHER -> [err |-> ErrUnknownType, v |-> u.v, a |-> u.a]
  IN  switch(unmarshalField(valueKind, val, typ, structField, a))

ErrBlankTimeFormat == "Blank time format"
ErrUnknownTimeZone == "unknown time zone"
ErrTimeSyntax      == "parsing time: cannot parse"

LocUTC   == <<"U","T","C">>
LocLocal == <<"L","o","c","a","l">>

\* time.LoadLocation: "" and "UTC" are UTC, "Local" is the local zone, and
\* no other name of the model is in the zone database
LoadLocation(name) ==
  IF name \in {<<>>, LocUTC} THEN [err |-> "nil", v |-> <<>>]
  ELSE IF name = LocLocal THEN [err |-> "nil", v |-> LocLocal]
  ELSE [err |-> ErrUnknownTimeZone, v |-> <<>>]

\* time.ParseInLocation for the layout "2006" (a year of four digits), the
\* layout of the timestamp fields of the model
ParseInLocation(layout, value, l) ==
  IF Len(value) = 4 /\ IsDigits(value)
  THEN [err |-> "nil", v |-> <<0, DigitsValue(value) - 1, l>>]
  ELSE [err |-> ErrTimeSyntax, v |-> Zero(TimeType)]

setTimeField(value, structField, field) ==
  LET timeFormat == TagGet(structField, "time_format")
      isUTC  == ParseBool(TagGet(structField, "time_utc")).v
      locTag == TagGet(structField, "time_location")
      set(t) == IF t.err # "nil" THEN [err |-> t.err, v |-> field]
                ELSE [err |-> "nil", v |-> t.v]
      in(loc) ==
        IF locTag # <<>> /\ loc.err # "nil" THEN [err |-> loc.err, v |-> field]
        ELSE set(ParseInLocation(timeFormat, value,
                                 IF locTag # <<>> THEN loc.v
                                 ELSE IF isUTC THEN <<>> ELSE LocLocal))
  IN  IF timeFormat = <<>> THEN [err |-> ErrBlankTimeFormat, v |-> field]
      ELSE IF value = <<>> THEN [err |-> "nil", v |-> Zero(TimeType)]
      ELSE in(LoadLocation(locTag))


(***************************************************************************)
(* bindData.  The walk has several outcomes where the case-insensitive     *)
(* search ranges over a map with more than one matching key (Go's map      *)
(* iteration order is not defined), so bindData is the SET of its          *)
(* outcomes [err, v, a, log]: the error returned, the struct afterwards,   *)
(* the id of the next allocation, and the trace of what the walk consulted *)
(* (log, history only).                                                    *)
(***************************************************************************)
ErrNotStruct == "binding element must be a struct"

Event(ev, path, key) == [ev |-> ev, path |-> path, key |-> key]

\* reflect.Value.CanSet of a field of an addressable struct
CanSet(typeField) == IsExported(typeField.name)

\* lines 118-121: the source tag of the mode, or the field's name
InputFieldName(typeField, tag) ==
  IF TagGet(typeField, tag) = <<>> THEN typeField.name ELSE TagGet(typeField, tag)

\* the test of lines 119-125 without the one for a BindUnmarshaler
IsNestedStructNoHook(typeField, tag) ==
  /\ TagGet(typeField, tag) = <<>>
  /\ typeField.type.kind = "struct"

\* lines 119-125: whether the walk recurses into the field
IsNestedStruct(typeField, tag) ==
  /\ TagGet(typeField, tag) = <<>>
  /\ ~bindUnmarshaler(typeField.type)
  /\ typeField.type.kind = "struct"

\* the search without the exact lookup of line 136
ResolveKeysNoExact(data, inputFieldName) ==
  { k \in DOMAIN data : ToLower(k) = ToLower(inputFieldName) }

\* the search with line 144 comparing nothing: the first key of the range
ResolveKeysAnyKey(data, inputFieldName) ==
  IF inputFieldName \in DOMAIN data THEN {inputFieldName} ELSE DOMAIN data

\* lines 136-150: the keys of data whose values the field may be given: the
\* key itself if data has it, else every key equal to it but for case (the
\* range loop stops at the first it meets)
ResolveKeys(data, inputFieldName) ==
  IF inputFieldName \in DOMAIN data THEN {inputFieldName}
  ELSE { k \in DOMAIN data : ToLower(k) = ToLower(inputFieldName) }

\* the loop of lines 172-176 reading inputValue[0] for every element
fillSliceFirstValue(sliceOf, inputValue, j, slice, a) ==
  LET all(r) == [err |-> r.err, v |-> [m \in DOMAIN slice |-> r.v], a |-> r.a]
  IN  all(setWithProperType(sliceOf.kind, inputValue[1], sliceOf, slice[1], a))

RECURSIVE fillSlice(_, _, _, _, _)
\* lines 172-176: slice[j..] set from inputValue[j..]
fillSlice(sliceOf, inputValue, j, slice, a) ==
  IF j > Len(inputValue) THEN [err |-> "nil", v |-> slice, a |-> a]
  ELSE LET r == setWithProperType(sliceOf.kind, inputValue[j], sliceOf, slice[j], a)
       IN  IF r.err # "nil" THEN [err |-> r.err, v |-> slice, a |-> r.a]
           ELSE fillSlice(sliceOf, inputValue, j + 1, [slice EXCEPT ![j] = r.v], r.a)

\* reflect.MakeSlice
MakeSlice(typ, len) == [ j \in 1..len |-> Zero(Elem(typ)) ]

\* lines 157-183: the field given inputValue.  ret: bindData returns here.
convertField(typeField, structField, inputValue, a) ==
  LET ftype == typeField.type
      numElems == Len(inputValue)
      \* u: what unmarshalField answered (line 158)
      rest(u) ==
        LET slice(r) ==
              IF r.err # "nil"
              THEN [ret |-> TRUE, err |-> r.err, v |-> u.v, a |-> r.a]
              ELSE [ret |-> FALSE, err |-> "nil", v |-> r.v, a |-> r.a]
            time(r) == [ret |-> TRUE, err |-> r.err, v |-> r.v, a |-> u.a]
            proper(r) == [ret |-> r.err # "nil", err |-> r.err, v |-> r.v, a |-> r.a]
        IN  IF u.ok
            THEN [ret |-> u.err # "nil", err |-> u.err, v |-> u.v, a |-> u.a]
            ELSE IF ftype.kind = "slice" /\ numElems > 0
            THEN slice(fillSlice(Elem(ftype), inputValue, 1, MakeSlice(ftype, numElems), u.a))
            ELSE IF ftype.isTime
            THEN time(setTimeField(inputValue[1], typeField, u.v))
            ELSE proper(setWithProperType(ftype.kind, inputValue[1], ftype, u.v, u.a))
  IN  rest(unmarshalField(ftype.kind, inputValue[1], ftype, structField, a))

RECURSIVE bindData(_, _, _, _, _, _, _)
RECURSIVE bindDataFrom(_, _, _, _, _, _, _, _)

\* lines 104-183: the body of the loop for field i
bindDataField(typ, val, data, tag, path, i, a, log) ==
  LET typeField == typ.fields[i]
      structField == val[i]
      inputFieldName == InputFieldName(typeField, tag)
      here == Append(path, i)
      log2 == Append(log, Event("lookup", here, inputFieldName))
      bound(r, k) ==
        [ret |-> r.ret, err |-> r.err, v |-> [val EXCEPT ![i] = r.v],
         a |-> r.a, log |-> Append(log2, Event("bind", here, k))]
      among(keys) ==
        IF keys = {}
        THEN { [ret |-> FALSE, err |-> "nil", v |-> val, a |-> a, log |-> log2] }
        ELSE { bound(convertField(typeField, structField, data[k], a), k) : k \in keys }
  IN  IF ~CanSet(typeField)
      THEN { [ret |-> FALSE, err |-> "nil", v |-> val, a |-> a, log |-> log] }
      ELSE IF IsNestedStruct(typeField, tag)
      THEN { [ret |-> r.err # "nil", err |-> r.err, v |-> [val EXCEPT ![i] = r.v],
              a |-> r.a, log |-> r.log] :
             r \in bindData(typeField.type, structField, data, tag, here, a,
                            Append(log, Event("recurse", here, <<>>))) }
      ELSE among(ResolveKeys(data, inputFieldName))

\* the loop going on to the next field after a failure, the first error kept
bindDataFromKeepGoing(typ, val, data, tag, path, i, a, log) ==
  IF i > Len(typ.fields)
  THEN { [err |-> "nil", v |-> val, a |-> a, log |-> log] }
  ELSE UNION { { IF r.err = "nil" THEN x ELSE [x EXCEPT !.err = r.err] :
                 x \in bindDataFrom(typ, r.v, data, tag, path, i + 1, r.a, r.log) } :
               r \in bindDataField(typ, val, data, tag, path, i, a, log) }

\* lines 103-185: the loop from field i on
bindDataFrom(typ, val, data, tag, path, i, a, log) ==
  IF i > Len(typ.fields)
  THEN { [err |-> "nil", v |-> val, a |-> a, log |-> log] }
  ELSE UNION { IF r.ret
               THEN { [err |-> r.err, v |-> r.v, a |-> r.a, log |-> r.log] }
               ELSE bindDataFrom(typ, r.v, data, tag, path, i + 1, r.a, r.log) :
               r \in bindDataField(typ, val, data, tag, path, i, a, log) }

\* bindData(ptr, data, tag), ptr pointing to val of type typ
bindData(typ, val, data, tag, path, a, log) ==
  IF typ.kind # "struct"
  THEN { [err |-> ErrNotStruct, v |-> val, a |-> a, log |-> log] }
  ELSE bindDataFrom(typ, val, data, tag, path, 1, a, log)

(***************************************************************************)
(* Bind.                                                                   *)
(***************************************************************************)
MethodGet    == "GET"
MethodDelete == "DELETE"
MethodPost   == "POST"

MIMEApplicationJSON == <<"a","p","p","l","i","c","a","t","i","o","n","/","j","s","o","n">>
MIMEApplicationXML  == <<"a","p","p","l","i","c","a","t","i","o","n","/","x","m","l">>
MIMETextXML         == <<"t","e","x","t","/","x","m","l">>
MIMEApplicationForm == <<"a","p","p","l","i","c","a","t","i","o","n","/","x","-","w","w","w","-","f","o","r","m","-","u","r","l","e","n","c","o","d","e","d">>
MIMEMultipartForm   == <<"m","u","l","t","i","p","a","r","t","/","f","o","r","m","-","d","a","t","a">>

NoError == [code |-> 0, message |-> "nil"]
NewHTTPError(code, message) == [code |-> code, message |-> message]
ErrUnsupportedMediaType == NewHTTPError(415, "Unsupported Media Type")
ErrEmptyBody == NewHTTPError(400, "Request body can't be empty")
HTTPErrorOf(e) == IF e = "nil" THEN NoError ELSE NewHTTPError(400, e)

\* what json.Decoder.Decode and xml.Decoder.Decode may answer
DecodeErrors == { "nil", "Unmarshal type error", "Syntax error", "Unsupported type error",
                  "unexpected EOF" }

\* line 34: the methods whose requests without a body are bound from the query
BindsQueryGetOnly(method) == method = MethodGet
BindsQuery(method) == method = MethodGet \/ method = MethodDelete

\* Bind(i, c): the set of its outcomes [err, v, a, log].  c is the request
\* with its query and form parameters; decoded are the values a structured
\* decoder may leave in the target.
DefaultBinderBind(typ, i, c, decoded, a, log) ==
  LET req == c.req
      ctype == req.ctype
      wrap(rs) == { [err |-> HTTPErrorOf(r.err), v |-> r.v, a |-> r.a, log |-> r.log] : r \in rs }
      \* b.bindData(i, data, tag), data got from the call named source
      bind(source, tag) ==
        wrap(bindData(typ, i, c[source], tag, <<>>, a, Append(log, Event(source, <<>>, <<>>))))
      decode(name) ==
        { [err |-> HTTPErrorOf(e), v |-> v, a |-> a,
           log |-> Append(log, Event(name, <<>>, <<>>))] :
          e \in DecodeErrors, v \in decoded }
      path ==
        IF req.ContentLength = 0
        THEN IF BindsQuery(req.Method) THEN "query" ELSE "empty"
        ELSE IF HasPrefix(ctype, MIMEApplicationJSON) THEN "json"
        ELSE IF HasPrefix(ctype, MIMEApplicationXML) \/ HasPrefix(ctype, MIMETextXML) THEN "xml"
        ELSE IF HasPrefix(ctype, MIMEApplicationForm) \/ HasPrefix(ctype, MIMEMultipartForm)
        THEN IF c.FormParamsErr # "nil" THEN "formerr" ELSE "form"
        ELSE "unsupported"
  IN  CASE path \in {"query", "form"} ->
             bind(IF path = "query" THEN "QueryParams" ELSE "FormParams", path)
        [] path = "empty" -> { [err |-> ErrEmptyBody, v |-> i, a |-> a, log |-> log] }
        [] path = "json" -> decode("json.Decode")
        [] path = "xml" -> decode("xml.Decode")
        [] path = "formerr" ->
             { [err |-> HTTPErrorOf(c.FormParamsErr), v |-> i, a |-> a,
                log |-> Append(log, Event("FormParams", <<>>, <<>>))] }
        [] OTHER -> { [err |-> ErrUnsupportedMediaType, v |-> i, a |-> a, log |-> log] }


(***************************************************************************)
(* The binding targets of the checked runs: the struct types, the keys     *)
(* their data maps draw on and the values their keys carry.                *)
(***************************************************************************)
Tags(query, form) == [NoTags EXCEPT !["query"] = query, !["form"] = form]
TimeTags(key, format, utc, location) ==
  [NoTags EXCEPT !["query"] = key, !["form"] = key, !["time_format"] = format,
                 !["time_utc"] = utc, !["time_location"] = location]

Int8Type    == Scalar("int8", FALSE)
\* type HookInt int, with UnmarshalParam
HookInt     == Scalar("int", TRUE)
\* type HookStruct struct { B int }, with UnmarshalParam
HookStruct  == StructOf(<< Field(<<"B">>, Scalar("int", FALSE), NoTags) >>, TRUE)
\* type HookSlice []int, with UnmarshalParam
HookSlice   == SliceOf(Scalar("int", FALSE), TRUE)
\* type Inner struct { B int8 }
Inner       == StructOf(<< Field(<<"B">>, Int8Type, NoTags) >>, FALSE)
\* type InnerForm struct { B int8 `form:"H"` }
InnerForm   == StructOf(<< Field(<<"B">>, Int8Type, Tags(<<>>, <<"H">>)) >>, FALSE)
Layout2006  == <<"2","0","0","6">>

\* struct { A int8; B uint8; C bool }
Scalars == StructOf(<< Field(<<"A">>, Int8Type, NoTags),
                       Field(<<"B">>, Scalar("uint8", FALSE), NoTags),
                       Field(<<"C">>, Scalar("bool", FALSE), NoTags) >>, FALSE)
\* struct { Name string; name string }
Names == StructOf(<< Field(<<"N","a","m","e">>, Scalar("string", FALSE), NoTags),
                     Field(<<"n","a","m","e">>, Scalar("string", FALSE), NoTags) >>, FALSE)
\* struct { Id int `query:"id" form:"ID"`; Z int8 }
Tagged == StructOf(<< Field(<<"I","d">>, Scalar("int", FALSE), Tags(<<"i","d">>, <<"I","D">>)),
                      Field(<<"Z">>, Int8Type, NoTags) >>, FALSE)
\* struct { A int8; In Inner; Z int8 }
Outer == StructOf(<< Field(<<"A">>, Int8Type, NoTags),
                     Field(<<"I","n">>, Inner, NoTags),
                     Field(<<"Z">>, Int8Type, NoTags) >>, FALSE)
\* struct { In InnerForm `query:"in"`; H HookStruct }
OuterTagged == StructOf(<< Field(<<"I","n">>, InnerForm, Tags(<<"i","n">>, <<>>)),
                           Field(<<"H">>, HookStruct, NoTags) >>, FALSE)
\* struct { L []int8; M HookSlice; N int8 }
Lists == StructOf(<< Field(<<"L">>, SliceOf(Int8Type, FALSE), NoTags),
                     Field(<<"M">>, HookSlice, NoTags),
                     Field(<<"N">>, Int8Type, NoTags) >>, FALSE)
\* struct { P *int8; Q *HookInt; N int8 }
Pointers == StructOf(<< Field(<<"P">>, PtrTo(Int8Type), NoTags),
                        Field(<<"Q">>, PtrTo(HookInt), NoTags),
                        Field(<<"N">>, Int8Type, NoTags) >>, FALSE)
\* struct { H HookInt; N int8 }
Hooks == StructOf(<< Field(<<"H">>, HookInt, NoTags),
                     Field(<<"N">>, Int8Type, NoTags) >>, FALSE)
\* struct { T time.Time `query:"t" form:"t" time_format:"2006"`; V time.Time `time_format:"2006"`; Z int8 }
Times == StructOf(<< Field(<<"T">>, TimeType, TimeTags(<<"t">>, Layout2006, <<>>, <<>>)),
                     Field(<<"V">>, TimeType, TimeTags(<<>>, Layout2006, <<>>, <<>>)),
                     Field(<<"Z">>, Int8Type, NoTags) >>, FALSE)
\* struct { U time.Time `query:"u" form:"u"`;
\*          W time.Time `query:"w" form:"w" time_format:"2006" time_utc:"1"`;
\*          X time.Time `query:"x" form:"x" time_format:"2006" time_location:"Mars"` }
Zones == StructOf(<< Field(<<"U">>, TimeType, TimeTags(<<"u">>, <<>>, <<>>, <<>>)),
                     Field(<<"W">>, TimeType, TimeTags(<<"w">>, Layout2006, <<"1">>, <<>>)),
                     Field(<<"X">>, TimeType,
                           TimeTags(<<"x">>, Layout2006, <<>>, <<"M","a","r","s">>)) >>, FALSE)
\* struct { F float64; G map[string]string; S string }
Others == StructOf(<< Field(<<"F">>, Scalar("float64", FALSE), NoTags),
                      Field(<<"G">>, Scalar("map", FALSE), NoTags),
                      Field(<<"S">>, Scalar("string", FALSE), NoTags) >>, FALSE)

Tokens == { <<>>, <<"1">>, <<"2","0","2","4">>, <<"x">> }
ListTokens == { <<"1">>, <<"2">>, <<"3">>, <<"x">> }

SeqsUpTo(alphabet, n) == UNION { [1..m -> alphabet] : m \in 1..n }
Single(tokens) == { <<t>> : t \in tokens }

\* the data maps with at most MaxKeys of the keys, each carrying one of the lists
Maps(keys, lists) ==
  UNION { [K -> lists] : K \in { K \in SUBSET keys : Cardinality(K) <= MaxKeys } }

\* target type, the keys and the value lists of its data maps
Catalogue ==
  { [typ |-> Scalars, keys |-> {<<"A">>, <<"B">>, <<"C">>}, lists |-> Single(Tokens)],
    [typ |-> Names, keys |-> {<<"N","a","m","e">>, <<"n","a","m","e">>, <<"N","A","M","E">>},
     lists |-> Single({<<"1">>, <<"x">>, <<>>})],
    [typ |-> Tagged, keys |-> {<<"i","d">>, <<"I","D">>, <<"I","d">>}, lists |-> Single(Tokens)],
    [typ |-> Outer, keys |-> {<<"A">>, <<"I","n">>, <<"B">>, <<"Z">>},
     lists |-> Single({<<"1">>, <<"x">>})],
    [typ |-> OuterTagged, keys |-> {<<"i","n">>, <<"H">>, <<"B">>},
     lists |-> Single({<<"1">>, <<"x">>})],
    [typ |-> Lists, keys |-> {<<"L">>},
     lists |-> SeqsUpTo(ListTokens, MaxVals) \cup {<< <<>> >>}],
    [typ |-> Lists, keys |-> {<<"L">>, <<"M">>},
     lists |-> SeqsUpTo(ListTokens, MaxVals - 1)],
    [typ |-> Pointers, keys |-> {<<"P">>, <<"Q">>, <<"N">>}, lists |-> Single(Tokens)],
    [typ |-> Hooks, keys |-> {<<"H">>, <<"h">>, <<"N">>}, lists |-> Single(Tokens)],
    [typ |-> Times, keys |-> {<<"t">>, <<"V">>, <<"Z">>}, lists |-> Single(Tokens)],
    [typ |-> Zones, keys |-> {<<"u">>, <<"w">>, <<"x">>}, lists |-> Single(Tokens)],
    [typ |-> Others, keys |-> {<<"F">>, <<"G">>, <<"S">>}, lists |-> Single(Tokens)],
    [typ |-> Int8Type, keys |-> {<<"A">>}, lists |-> Single(Tokens)] }

RECURSIVE Populated(_, _)
\* a value of the type none of whose parts is zero; n numbers its pointers
Populated(typ, n) ==
  CASE typ.kind = "ptr"     -> [id |-> n, val |-> Populated(Elem(typ), 2 * n)]
    [] typ.kind = "slice"   -> << Populated(Elem(typ), 10 * n + 1), Populated(Elem(typ), 10 * n + 2) >>
    [] typ.kind = "map"     -> << "m" >>
    [] typ.kind = "string"  -> << "o" >>
    [] typ.kind = "bool"    -> TRUE
    [] typ.kind \in {"float32", "float64"} -> [mant |-> 7, exp |-> 0]
    [] typ.kind = "struct"  -> [ i \in DOMAIN typ.fields |-> Populated(typ.fields[i].type, 10 * n + i) ]
    [] OTHER                -> 7

\* the values the target holds before the call
PreValues(typ) == { Zero(typ), Populated(typ, 1) }

Charset  == <<";"," ","c","h","a","r","s","e","t","=","U","T","F","-","8">>
Boundary == <<";"," ","b","o","u","n","d","a","r","y","=","x">>
OctetStream == <<"a","p","p","l","i","c","a","t","i","o","n","/","o","c","t","e","t","-","s","t","r","e","a","m">>
\* the JSON type short of its last letter
AlmostJSON == SubSeq(MIMEApplicationJSON, 1, Len(MIMEApplicationJSON) - 1)

JSONFamily  == { MIMEApplicationJSON, MIMEApplicationJSON \o Charset }
XMLFamily   == { MIMEApplicationXML, MIMETextXML, MIMETextXML \o Charset }
FormFamily  == { MIMEApplicationForm, MIMEMultipartForm \o Boundary }
OtherTypes  == { OctetStream, AlmostJSON, <<>> }
ContentTypes == JSONFamily \cup XMLFamily \cup FormFamily \cup OtherTypes

EmptyMap == <<>>

Request(method, length, ctype) == [Method |-> method, ContentLength |-> length, ctype |-> ctype]
Context(req, query, form, formErr) ==
  [req |-> req, QueryParams |-> query, FormParams |-> form, FormParamsErr |-> formErr]

\* requests whose parameters are bound: in mode query, and in mode form
WalkContexts(data) ==
  { Context(Request(MethodGet, 0, <<>>), data, EmptyMap, "nil"),
    Context(Request(MethodPost, 5, MIMEApplicationForm), EmptyMap, data, "nil") }

\* requests of every method, length and content type, with query and form
\* parameters that differ
FrontContexts ==
  { Context(Request(m, n, t), qf[1], qf[2], e) :
      m \in {MethodGet, MethodDelete, MethodPost}, n \in {0, 5, -1}, t \in ContentTypes,
      qf \in { << [k \in {<<"A">>} |-> << <<"1">> >>], [k \in {<<"A">>} |-> << <<"x">> >>] >>,
               << [k \in {<<"B">>} |-> << <<"1">> >>], [k \in {<<"C">>} |-> << <<"1">> >>] >> },
      e \in {"nil", "form: malformed"} }

VARIABLES typ, target, pre, c, alloc, log, err, pc
vars == <<typ, target, pre, c, alloc, log, err, pc>>

\* the ids of the pointers of a value
RECURSIVE Ids(_, _)
Ids(t, v) ==
  CASE t.kind = "ptr"    -> IF v.id = 0 THEN {} ELSE {v.id} \cup Ids(Elem(t), v.val)
    [] t.kind = "slice"  -> UNION { Ids(Elem(t), v[j]) : j \in DOMAIN v }
    [] t.kind = "struct" -> UNION { Ids(t.fields[i].type, v[i]) : i \in DOMAIN t.fields }
    [] OTHER             -> {}

FreshId(t, v) == 1 + (CHOOSE m \in Ids(t, v) \cup {0} : \A n \in Ids(t, v) : n <= m)

Init ==
  /\ \/ \E e \in Catalogue : \E data \in Maps(e.keys, e.lists) :
          /\ typ = e.typ
          /\ c \in WalkContexts(data)
     \/ /\ typ = Scalars
        /\ c \in FrontContexts
  /\ target \in PreValues(typ)
  /\ pre = target
  /\ alloc = FreshId(typ, target)
  /\ log = <<>>
  /\ err = NoError
  /\ pc = "ready"

\* the values a structured decoder may leave in the target
Decoded(t, v) == { v, Zero(t), Populated(t, 1) }

\* a handler calls Bind(i, c) with i pointing to target
Bind ==
  /\ pc = "ready"
  /\ \E r \in DefaultBinderBind(typ, target, c, Decoded(typ, target), alloc, log) :
       /\ target' = r.v
       /\ alloc' = r.a
       /\ log' = r.log
       /\ err' = r.err
  /\ pc' = "done"
  /\ UNCHANGED <<typ, pre, c>>

Next == Bind

Spec == Init /\ [][Next]_vars

(***************************************************************************)
(* What the properties read.                                               *)
(***************************************************************************)
Done == pc = "done"

\* Bind ran bindData: on the query parameters in mode query, or on the form
\* parameters in mode form
Walked ==
  /\ Done
  /\ log # <<>>
  /\ log[1].ev \in {"QueryParams", "FormParams"}
  /\ log[1].ev = "FormParams" => c.FormParamsErr = "nil"
Mode == IF log[1].ev = "QueryParams" THEN "query" ELSE "form"
Data == c[log[1].ev]
WalkOk == err = NoError
WalkErr == err.message

Events(ev) == { e \in Range(log) : e.ev = ev }
Bound(path) == \E e \in Events("bind") : e.path = path
KeyOf(path) == (CHOOSE e \in Events("bind") : e.path = path).key
Looked(path) == \E e \in Events("lookup") : e.path = path
Recursed(path) == \E e \in Events("recurse") : e.path = path

RECURSIVE AllPaths(_)
\* the paths of the fields of a struct type, those of its struct fields included
AllPaths(t) ==
  UNION { {<<i>>} \cup { <<i>> \o p : p \in AllPaths(t.fields[i].type) } : i \in DOMAIN t.fields }

RECURSIVE FieldAt(_, _)
FieldAt(t, path) ==
  IF Len(path) = 1 THEN t.fields[path[1]] ELSE FieldAt(t.fields[path[1]].type, Tail(path))

RECURSIVE ValueAt(_, _)
ValueAt(v, path) == IF path = <<>> THEN v ELSE ValueAt(v[path[1]], Tail(path))

Parent(path) == SubSeq(path, 1, Len(path) - 1)

\* a field can be set if its name is exported
Settable(f) == f.name # <<>> /\ f.name[1] \in Range(UpperCase)

\* a nested record: a struct field with no tag of the mode and no
\* UnmarshalParam of its own
Nested(f, mode) == f.type.kind = "struct" /\ f.tag[mode] = <<>> /\ ~f.type.hook

\* the fields the walk in a mode ranges over: settable, in the target or in
\* a nested record
RECURSIVE WalkPaths(_, _)
WalkPaths(t, mode) ==
  UNION { IF ~Settable(t.fields[i]) THEN {}
          ELSE {<<i>>} \cup
               IF Nested(t.fields[i], mode)
               THEN { <<i>> \o p : p \in WalkPaths(t.fields[i].type, mode) }
               ELSE {} :
          i \in DOMAIN t.fields }

\* the fields of WalkPaths that are converted: all but the nested records
Leaves(t, mode) == { p \in WalkPaths(t, mode) : ~Nested(FieldAt(t, p), mode) }

\* p comes before q in the order of the walk
RECURSIVE Before(_, _)
Before(p, q) ==
  /\ p # <<>> /\ q # <<>>
  /\ \/ p[1] < q[1]
     \/ p[1] = q[1] /\ Before(Tail(p), Tail(q))

\* p is a proper prefix of q
Under(q, p) == Len(q) > Len(p) /\ SubSeq(q, 1, Len(p)) = p

\* the walk got to the field at p, or past it
Reached(p) == \E e \in Range(log) : e.path = p \/ Under(e.path, p) \/ Before(p, e.path)

\* the walk failed at a field under p
FailedUnder(p) == ~WalkOk /\ Under(log[Len(log)].path, p)

\* the keys of the data that equal a name but for case
Matching(data, name) == { k \in DOMAIN data : ToLower(k) = ToLower(name) }

\* the name a field goes by in a mode: its tag of the mode, else its name
PrimaryKey(f, mode) == IF f.tag[mode] # <<>> THEN f.tag[mode] ELSE f.name

\* equal values; of two pointers, both nil or both pointing to equal values
SameValue(t, x, y) ==
  IF t.kind = "ptr" THEN (x.id = 0) = (y.id = 0) /\ (x.id # 0 => x.val = y.val)
  ELSE x = y


(***************************************************************************)
(* C1.  Bind chooses its source from the body, the method and the content  *)
(* type alone.  Without a body (content length 0) GET and DELETE are bound *)
(* from the query parameters in mode query, and any other method fails     *)
(* with the empty-body error and the target untouched.  With a body, a     *)
(* form content type is bound from the form parameters in mode form, a     *)
(* JSON or XML content type goes to the structured decoder, any other      *)
(* content type fails with ErrUnsupportedMediaType and the target          *)
(* untouched, and the query parameters are never read.                     *)
(***************************************************************************)
\* the call is one of the outcomes of walking data in the mode tag
BoundFrom(source, tag) ==
  /\ log # <<>> /\ log[1] = Event(source, <<>>, <<>>)
  /\ \E r \in bindData(typ, pre, c[source], tag, <<>>, FreshId(typ, pre), <<log[1]>>) :
       /\ target = r.v
       /\ err = HTTPErrorOf(r.err)
       /\ log = r.log

Untouched(e) == err = e /\ target = pre /\ log = <<>>

C1_BindSelectsSource ==
  Done =>
    LET req  == c.req
        body == req.ContentLength # 0
    IN  /\ (~body /\ req.Method \in {MethodGet, MethodDelete}) => BoundFrom("QueryParams", "query")
        /\ (~body /\ req.Method \notin {MethodGet, MethodDelete}) => Untouched(ErrEmptyBody)
        /\ (body /\ req.ctype \in FormFamily /\ c.FormParamsErr = "nil") =>
              BoundFrom("FormParams", "form")
        /\ (body /\ req.ctype \in FormFamily /\ c.FormParamsErr # "nil") =>
              /\ target = pre
              /\ err = HTTPErrorOf(c.FormParamsErr)
        /\ (body /\ req.ctype \in JSONFamily) => log = << Event("json.Decode", <<>>, <<>>) >>
        /\ (body /\ req.ctype \in XMLFamily) => log = << Event("xml.Decode", <<>>, <<>>) >>
        /\ (body /\ req.ctype \in OtherTypes) => Untouched(ErrUnsupportedMediaType)
        /\ body => Events("QueryParams") = {}

\* a DELETE without a body whose query parameter was bound, the form
\* parameters holding another value for the same key
C1_Witness ==
  /\ Done
  /\ c.req.Method = MethodDelete /\ c.req.ContentLength = 0
  /\ c.req.ctype \in FormFamily
  /\ c.QueryParams # c.FormParams
  /\ DOMAIN c.QueryParams = DOMAIN c.FormParams
  /\ WalkOk /\ target # pre

(***************************************************************************)
(* C2.  Partial binding.  A field that is not a struct and that no key of  *)
(* the data matches, exactly or but for case, keeps its value, and the     *)
(* walk does not fail on it: a walk none of whose fields has a matching    *)
(* key succeeds and changes nothing, and of two fields A and B with a key  *)
(* for A alone, A is converted and B keeps its value.                      *)
(***************************************************************************)
Unmatched(p) == Matching(Data, PrimaryKey(FieldAt(typ, p), Mode)) = {}

C2_PartialBinding ==
  (Walked /\ typ.kind = "struct") =>
    /\ \A p \in Leaves(typ, Mode) :
         (FieldAt(typ, p).type.kind # "struct" /\ Unmatched(p)) =>
            ValueAt(target, p) = ValueAt(pre, p)
    /\ (\A p \in Leaves(typ, Mode) : Unmatched(p)) => (WalkOk /\ target = pre)
    /\ \A p \in Leaves(typ, Mode) :
         (~Unmatched(p) /\ \A q \in Leaves(typ, Mode) \ {p} : Unmatched(q)) =>
            /\ Bound(p)
            /\ \E r \in { convertField(FieldAt(typ, p), ValueAt(pre, p), Data[KeyOf(p)],
                                       FreshId(typ, pre)) } :
                  /\ WalkErr = r.err
                  /\ ValueAt(target, p) = r.v

\* A is given "1" and B, which held 7, has no key: A = 1 and B = 7
C2_Witness ==
  /\ Walked /\ typ = Scalars /\ WalkOk
  /\ DOMAIN Data = {<<"A">>}
  /\ pre = <<7, 7, TRUE>>
  /\ target = <<1, 7, TRUE>>


(***************************************************************************)
(* C3.  A nested record (a struct field with no tag of the mode and no     *)
(* UnmarshalParam) is walked in place with the same data and the same      *)
(* mode, its own name is never looked up, and the walk then goes on to the *)
(* next field: the keys of the flat map that match the nested fields'      *)
(* names fill the nested fields.  A struct field with a tag or with        *)
(* UnmarshalParam is not walked.                                           *)
(***************************************************************************)
\* the next settable field after the one at p, if any
NextFields(p) ==
  LET fields == IF Len(p) = 1 THEN typ.fields ELSE FieldAt(typ, Parent(p)).type.fields
      later  == { j \in DOMAIN fields : j > p[Len(p)] /\ Settable(fields[j]) }
  IN  { Append(Parent(p), j) : j \in { j \in later : \A m \in later : j <= m } }

C3_NestedRecord ==
  (Walked /\ typ.kind = "struct") =>
    /\ \A p \in WalkPaths(typ, Mode) :
         LET f == FieldAt(typ, p)
         IN  /\ (Nested(f, Mode) /\ Reached(p)) =>
                  /\ Recursed(p) /\ ~Looked(p) /\ ~Bound(p)
                  /\ ~FailedUnder(p) => \A q \in NextFields(p) : Reached(q)
                  /\ FailedUnder(p) => \A q \in NextFields(p) : ~Reached(q)
             /\ (f.type.kind = "struct" /\ ~Nested(f, Mode)) =>
                  /\ ~Recursed(p)
                  /\ \A e \in Range(log) : ~Under(e.path, p)
                  /\ ~Bound(p) => ValueAt(target, p) = ValueAt(pre, p)
    /\ \A q \in Leaves(typ, Mode) :
         Len(q) > 1 =>
           /\ Recursed(Parent(q))
                => Event("lookup", q, PrimaryKey(FieldAt(typ, q), Mode)) \in Range(log)
           /\ (Recursed(Parent(q)) /\ ~Unmatched(q)) =>
                /\ Bound(q) /\ KeyOf(q) \in Matching(Data, PrimaryKey(FieldAt(typ, q), Mode))
                /\ \E r \in { convertField(FieldAt(typ, q), ValueAt(pre, q), Data[KeyOf(q)],
                                           FreshId(typ, pre)) } :
                     IF r.err = "nil" THEN ValueAt(target, q) = r.v
                     ELSE WalkErr = r.err /\ FailedUnder(Parent(q))

\* Outer{A, In Inner{B}, Z} given B and Z, and no key In: In.B and Z are filled
C3_Witness ==
  /\ Walked /\ typ = Outer /\ WalkOk
  /\ DOMAIN Data = {<<"B">>, <<"Z">>}
  /\ pre = Zero(Outer)
  /\ target = <<0, <<1>>, 1>>
  /\ Recursed(<<2>>)

(***************************************************************************)
(* C4.  The key of a field is its tag of the mode if it has one and its    *)
(* name if not.  If the data has that very key its values are used, even   *)
(* where other keys differ from it only by case; if not, a key equal to it *)
(* but for case is used; if there is none the field is skipped.            *)
(***************************************************************************)
C4_FieldResolution ==
  (Walked /\ typ.kind = "struct") =>
    \A p \in Leaves(typ, Mode) :
      LET f  == FieldAt(typ, p)
          pk == PrimaryKey(f, Mode)
      IN  /\ Looked(p) => Event("lookup", p, pk) \in Range(log)
          /\ Bound(p) => /\ Looked(p)
                         /\ KeyOf(p) \in DOMAIN Data
                         /\ pk \in DOMAIN Data => KeyOf(p) = pk
                         /\ ToLower(KeyOf(p)) = ToLower(pk)
          /\ (Looked(p) /\ Matching(Data, pk) # {}) => Bound(p)
          /\ (Looked(p) /\ Matching(Data, pk) = {}) =>
                ~Bound(p) /\ ValueAt(target, p) = ValueAt(pre, p)
          /\ (Bound(p) /\ f.type = Scalar("string", FALSE)) =>
                ValueAt(target, p) \in
                  { Data[k][1] : k \in IF pk \in DOMAIN Data THEN {pk} ELSE Matching(Data, pk) }

\* the untagged field Name is filled from the key "NAME", the only key
C4_Witness ==
  /\ Walked /\ typ = Names
  /\ DOMAIN Data = { <<"N","A","M","E">> }
  /\ Data[<<"N","A","M","E">>] = << <<"1">> >>
  /\ pre[1] = <<"o">>
  /\ target[1] = <<"1">>


(***************************************************************************)
(* What converting a token gives: [err, v].                                *)
(***************************************************************************)
Conv(t, token) ==
  CASE t.hook -> ParseInt(token, 64)
    [] t.kind \in {"int", "int8", "int16", "int32", "int64"} ->
         ParseInt(IF token = <<>> THEN <<"0">> ELSE token, BitSize(t.kind))
    [] t.kind \in {"uint", "uint8", "uint16", "uint32", "uint64"} ->
         ParseUint(IF token = <<>> THEN <<"0">> ELSE token, BitSize(t.kind))
    [] t.kind = "bool" -> ParseBool(IF token = <<>> THEN <<"0">> ELSE token)
    [] t.kind = "string" -> [err |-> "nil", v |-> token]
    [] OTHER -> [err |-> ErrUnknownType, v |-> 0]

\* the fields of a kind among the converted ones
LeavesOf(kind) == { p \in Leaves(typ, Mode) : FieldAt(typ, p).type.kind = kind }

(***************************************************************************)
(* C5.  Sequence binding, as the code has it: a slice field whose type has *)
(* no UnmarshalParam and whose key carries n >= 1 values is, by a walk     *)
(* that succeeds, replaced by a slice of length n whose j-th element is    *)
(* the j-th value converted; nothing of its former contents is kept.       *)
(***************************************************************************)
IsSequenceOf(p, values) ==
  /\ Len(ValueAt(target, p)) = Len(values)
  /\ \A j \in DOMAIN values :
       LET r == Conv(Elem(FieldAt(typ, p).type), values[j])
       IN  r.err = "nil" /\ ValueAt(target, p)[j] = r.v

C5_SequenceBinding ==
  (Walked /\ typ.kind = "struct" /\ WalkOk) =>
    \A p \in LeavesOf("slice") :
      (Bound(p) /\ ~FieldAt(typ, p).type.hook) => IsSequenceOf(p, Data[KeyOf(p)])

\* C5 as claimed, of every slice field
C5_AsClaimed ==
  (Walked /\ typ.kind = "struct" /\ WalkOk) =>
    \A p \in LeavesOf("slice") : Bound(p) => IsSequenceOf(p, Data[KeyOf(p)])

\* L, which held [7, 7], given "1", "2", "3" is [1, 2, 3]
C5_Witness ==
  /\ Walked /\ typ = Lists /\ WalkOk
  /\ <<"L">> \in DOMAIN Data
  /\ Data[<<"L">>] = << <<"1">>, <<"2">>, <<"3">> >>
  /\ pre[1] = <<7, 7>>
  /\ target[1] = <<1, 2, 3>>

(***************************************************************************)
(* C6.  A pointer field given a value that converts: if it was nil it is   *)
(* set, to a new pointee holding the converted value; if it was set, the   *)
(* converted value is stored in the pointee it had and nothing is          *)
(* allocated.                                                              *)
(***************************************************************************)
C6_PointerField ==
  (Walked /\ typ.kind = "struct") =>
    /\ \A p \in LeavesOf("ptr") :
         LET f  == FieldAt(typ, p)
             r  == Conv(Elem(f.type), Data[KeyOf(p)][1])
             v0 == ValueAt(pre, p)
             v1 == ValueAt(target, p)
         IN  (Bound(p) /\ r.err = "nil") =>
               /\ v1.id # 0
               /\ v1.val = r.v
               /\ v0.id # 0 => v1.id = v0.id
               /\ v0.id = 0 => v1.id \notin Ids(typ, pre)
    /\ alloc = FreshId(typ, pre)
               + Cardinality({ p \in LeavesOf("ptr") : Bound(p) /\ ValueAt(pre, p).id = 0 })

\* P was nil and is given "1": it points to 1; Q was nil and stays so
C6_Witness ==
  /\ Walked /\ typ = Pointers /\ WalkOk
  /\ DOMAIN Data = {<<"P">>}
  /\ Data[<<"P">>] = << <<"1">> >>
  /\ pre[1].id = 0
  /\ target[1].id # 0 /\ target[1].val = 1
  /\ target[2].id = 0

(***************************************************************************)
(* C7.  A field whose type has UnmarshalParam: the hook is called with the *)
(* first value; if it succeeds the field holds what it parsed, and if it   *)
(* fails the field keeps its value and the walk returns the hook's error.  *)
(***************************************************************************)
C7_CustomUnmarshal ==
  (Walked /\ typ.kind = "struct") =>
    \A p \in Leaves(typ, Mode) :
      LET f == FieldAt(typ, p)
      IN  (f.type.hook /\ Bound(p)) =>
            LET r == UnmarshalParam(f.type, Zero(f.type), Data[KeyOf(p)][1])
            IN  IF r.err = "nil" THEN ValueAt(target, p) = r.v
                ELSE /\ WalkErr = r.err
                     /\ ValueAt(target, p) = ValueAt(pre, p)

(***************************************************************************)
(* C8.  The walk visits every field and stops only at a failure: when it   *)
(* succeeds, every settable field whose key is in the data holds the       *)
(* conversion of its value, whatever fields come before it.                *)
(***************************************************************************)
C8_VisitsEveryField ==
  (Walked /\ typ.kind = "struct" /\ WalkOk) =>
    \A p \in Leaves(typ, Mode) :
      LET f == FieldAt(typ, p)
          keys == ResolveKeys(Data, PrimaryKey(f, Mode))
      IN  keys # {} =>
            \E k \in keys :
              SameValue(f.type, ValueAt(target, p),
                        convertField(f, ValueAt(pre, p), Data[k], alloc).v)

(***************************************************************************)
(* C9.  First error wins, without rollback: when a field fails to convert, *)
(* the walk returns that field's error, the fields converted before it     *)
(* hold their new values, and the fields after it, those after the nested  *)
(* record it is in included, keep the values they had.                     *)
(***************************************************************************)
\* the field the walk failed at: the last one it gave a value
Failing == log[Len(log)].path

C9_FirstErrorWins ==
  (Walked /\ typ.kind = "struct" /\ ~WalkOk) =>
    /\ log[Len(log)].ev = "bind"
    /\ LET f == FieldAt(typ, Failing)
       IN  WalkErr = convertField(f, ValueAt(pre, Failing), Data[KeyOf(Failing)], alloc).err
    /\ \A p \in Leaves(typ, Mode) :
         LET f == FieldAt(typ, p)
         IN  /\ (Before(p, Failing) /\ Bound(p)) =>
                  LET r == convertField(f, ValueAt(pre, p), Data[KeyOf(p)], alloc)
                  IN  r.err = "nil" /\ SameValue(f.type, ValueAt(target, p), r.v)
             /\ Before(Failing, p) => ~Bound(p) /\ ValueAt(target, p) = ValueAt(pre, p)

\* Outer{A, In Inner{B}, Z}: A converts, In.B fails, Z has a value that
\* would convert and keeps the value it had
C9_Witness ==
  /\ Walked /\ typ = Outer /\ ~WalkOk
  /\ DOMAIN Data = {<<"A">>, <<"B">>, <<"Z">>}
  /\ Data[<<"Z">>] = << <<"1">> >>
  /\ Failing = <<2, 1>>
  /\ pre = <<7, <<7>>, 7>>
  /\ target = <<1, <<7>>, 7>>

(***************************************************************************)
(* C10.  A conversion of the built-in converter that fails leaves a scalar *)
(* field and a slice field as they were.  A pointer field that was set     *)
(* keeps its pointee and the pointee its value; one that was nil is left   *)
(* set, pointing to the zero value of its type.                            *)
(***************************************************************************)
\* the walk failed in the built-in converter, at a field without UnmarshalParam
ConverterFailed ==
  /\ Walked /\ typ.kind = "struct" /\ ~WalkOk
  /\ WalkErr \in {ErrSyntax, ErrRange, ErrUnknownType}
  /\ LET t == FieldAt(typ, Failing).type
     IN  ~t.hook /\ (t.kind = "ptr" => ~Elem(t).hook)

C10_FailedConversion ==
  ConverterFailed =>
    LET t  == FieldAt(typ, Failing).type
        v0 == ValueAt(pre, Failing)
        v1 == ValueAt(target, Failing)
    IN  IF t.kind # "ptr" THEN v1 = v0
        ELSE IF v0.id # 0 THEN v1 = v0
        ELSE v1.id # 0 /\ v1.id \notin Ids(typ, pre) /\ v1.val = Zero(Elem(t))

\* C10 as claimed: the failing field is as it was, a nil pointer too
C10_AsClaimed ==
  ConverterFailed => ValueAt(target, Failing) = ValueAt(pre, Failing)

\* L, which held [7, 7], is given "1", "x" and still holds [7, 7]
C10_Witness ==
  /\ ConverterFailed /\ typ = Lists
  /\ Failing = <<1>>
  /\ Data[<<"L">>] = << <<"1">>, <<"x">> >>
  /\ pre[1] = <<7, 7>>
  /\ target[1] = <<7, 7>>

====
